---- MODULE Spec2Model ----
(***************************************************************************)
(* Finance tracker: the store (src/store/financeStore.ts) and the views    *)
(* that derive the monthly aggregates, the ledger and the emergency-fund   *)
(* target from it (Dashboard, MonthlyLedger, Target).                      *)
(*                                                                         *)
(* Amounts are integers (minor units); a calendar date is a record         *)
(* [y, m, d]; an instant is a record [min, ms]: whole minutes since        *)
(* 1970-01-01T00:00Z and the milliseconds within that minute.              *)
(***************************************************************************)
EXTENDS Integers, Sequences, FiniteSets, TLC

VARIABLES
    transactions,        \* FinanceState.transactions
    categories,          \* FinanceState.categories
    monthlyIncomeTarget, \* FinanceState.monthlyIncomeTarget (number | null)
    emergencyFundGoal,   \* FinanceState.emergencyFundGoal (number | null)
    savingAmount,        \* FinanceState.savingAmount (number | null)
    totalSavings,        \* FinanceState.totalSavings
    currentMonth,        \* the views' `new Date()`, as the local calendar date
    tzOffset,            \* minutes the local clock is ahead of UTC
    sortField,           \* MonthlyLedger state
    sortDirection,       \* MonthlyLedger state
    nextId,              \* the next id the persistence layer hands out
    now,                 \* Date.now(), in milliseconds
    table,               \* the user's rows of the persistence table transactions
    calls,               \* the store's asynchronous calls in flight
    dashboard_metrics    \* the user's rows of the persistence table dashboard_metrics

vars == << transactions, categories, monthlyIncomeTarget, emergencyFundGoal,
           savingAmount, totalSavings, currentMonth, tzOffset, sortField,
           sortDirection, nextId, now, table, calls, dashboard_metrics >>

\* a `number | null` field holds Null or Some(number)
Null == << >>

Some(v) == << v >>

ValueOf(x) == x[1]

----------------------------------------------------------------------------
(* Bounds of the model *)

MaxTx == 2
MaxAmount == 1
MaxFormAmount == 2
MaxGoal == 4
MaxSaving == 3

\* categories added on the Settings screen
MaxCategoryAdds == 2

\* the dashboard_metrics sums past which no further UPDATE is explored
MaxMetric == 3

\* .slice(0, 5) of getTopCategories
TopLimit == 5

\* rows of the persistence table: one more category than the summary keeps
MaxRows == TopLimit + 1

MaxId == MaxTx + 1

----------------------------------------------------------------------------
(* Calendar arithmetic behind Date, startOfMonth, endOfMonth *)

Date(y, m, d) == [y |-> y, m |-> m, d |-> d]

MinutesPerDay == 24 * 60

IsLeap(y) == (y % 4 = 0 /\ y % 100 # 0) \/ y % 400 = 0

DaysInMonth(y, m) ==
    IF m = 2 THEN (IF IsLeap(y) THEN 29 ELSE 28)
    ELSE IF m \in {4, 6, 9, 11} THEN 30 ELSE 31

LeapsThrough(y) == (y \div 4) - (y \div 100) + (y \div 400)

RECURSIVE DaysBeforeMonth(_, _)
DaysBeforeMonth(y, m) ==
    IF m = 1 THEN 0 ELSE DaysBeforeMonth(y, m - 1) + DaysInMonth(y, m - 1)

\* days from 1970-01-01 to the given calendar date
DayNumber(dt) ==
    365 * (dt.y - 1970) + (LeapsThrough(dt.y - 1) - LeapsThrough(1969))
    + DaysBeforeMonth(dt.y, dt.m) + (dt.d - 1)

Instant(min, ms) == [min |-> min, ms |-> ms]

TimeLE(a, b) == a.min < b.min \/ (a.min = b.min /\ a.ms <= b.ms)

TimeLT(a, b) == a.min < b.min \/ (a.min = b.min /\ a.ms < b.ms)

\* new Date("yyyy-MM-dd"): a date-only ISO string is read as UTC midnight
NewDate(dt) == Instant(DayNumber(dt) * MinutesPerDay, 0)

\* startOfMonth(currentMonth): local 00:00:00.000 of day 1
monthStart ==
    Instant(DayNumber(Date(currentMonth.y, currentMonth.m, 1)) * MinutesPerDay
            - tzOffset, 0)

\* endOfMonth(currentMonth): local 23:59:59.999 of the month's last day
monthEnd ==
    Instant(DayNumber(Date(currentMonth.y, currentMonth.m,
                           DaysInMonth(currentMonth.y, currentMonth.m)))
               * MinutesPerDay + (MinutesPerDay - 1) - tzOffset,
            59999)

\* isWithinInterval(date, {start, end}): time >= start && time <= end
isWithinInterval(t, start, end) == TimeLE(start, t) /\ TimeLE(t, end)

----------------------------------------------------------------------------
(* Aggregation: Dashboard (and, line for line, Target) *)

Abs(x) == IF x < 0 THEN -x ELSE x

Max(a, b) == IF a >= b THEN a ELSE b

Min(a, b) == IF a <= b THEN a ELSE b

InCurrentMonth(t) == isWithinInterval(NewDate(t.date), monthStart, monthEnd)

currentMonthTransactions == SelectSeq(transactions, InCurrentMonth)

IsIncome(t) == t.type = "income"

IsExpense(t) == t.type = "expense"

\* .reduce((sum, t) => sum + t.amount, 0)
RECURSIVE SumAmount(_)
SumAmount(s) ==
    IF s = << >> THEN 0
    ELSE SumAmount(SubSeq(s, 1, Len(s) - 1)) + s[Len(s)].amount

\* mutant: the reduce without Math.abs
SumAbsAmountSigned(s) == SumAmount(s)

\* .reduce((sum, t) => sum + Math.abs(t.amount), 0)
RECURSIVE SumAbsAmount(_)
SumAbsAmount(s) ==
    IF s = << >> THEN 0
    ELSE SumAbsAmount(SubSeq(s, 1, Len(s) - 1)) + Abs(s[Len(s)].amount)

\* mutant: the income sum without its type filter
IncomeTotalUnfiltered(txs) == SumAmount(txs)

IncomeTotal(txs) == SumAmount(SelectSeq(txs, IsIncome))

ExpenseTotal(txs) == SumAbsAmount(SelectSeq(txs, IsExpense))

totalIncome == IncomeTotal(currentMonthTransactions)

totalExpenses == ExpenseTotal(currentMonthTransactions)

\* mutant: expenses added instead of subtracted
NetBalanceAdded(txs) == IncomeTotal(txs) + ExpenseTotal(txs)

NetBalanceOf(txs) == IncomeTotal(txs) - ExpenseTotal(txs)

netBalance == NetBalanceOf(currentMonthTransactions)

displaySavingAmount == IF savingAmount # Null THEN ValueOf(savingAmount) ELSE netBalance

\* categories.find((c) => c.name === name): index of the first match, 0 if none
RECURSIVE FindFrom(_, _, _)
FindFrom(cats, name, i) ==
    IF i > Len(cats) THEN 0
    ELSE IF cats[i].name = name THEN i
    ELSE FindFrom(cats, name, i + 1)

FindCategory(cats, name) == FindFrom(cats, name, 1)

\* mutant: the transaction's own category name as the key
CategoryNameRaw(cats, t) == t.category

\* category?.name || 'Other'
CategoryNameOf(cats, t) ==
    LET i == FindCategory(cats, t.category)
    IN  IF i # 0 /\ cats[i].name # "" THEN cats[i].name ELSE "Other"

\* mutant: the bucket overwritten by the latest amount
AccumulateOverwrite(acc, key, amount) ==
    IF key \in DOMAIN acc
    THEN [acc EXCEPT ![key] = Abs(amount)]
    ELSE acc @@ (key :> Abs(amount))

\* acc[categoryName] = (acc[categoryName] || 0) + Math.abs(transaction.amount)
Accumulate(acc, key, amount) ==
    IF key \in DOMAIN acc
    THEN [acc EXCEPT ![key] = @ + Abs(amount)]
    ELSE acc @@ (key :> Abs(amount))

RECURSIVE GroupByCategory(_, _)
GroupByCategory(cats, s) ==
    IF s = << >> THEN << >>
    ELSE Accumulate(GroupByCategory(cats, SubSeq(s, 1, Len(s) - 1)),
                    CategoryNameOf(cats, s[Len(s)]), s[Len(s)].amount)

ExpensesByCategoryOf(cats, txs) == GroupByCategory(cats, SelectSeq(txs, IsExpense))

expensesByCategory == ExpensesByCategoryOf(categories, currentMonthTransactions)

----------------------------------------------------------------------------
(* Ledger projection: MonthlyLedger *)

\* String.prototype.toLowerCase on the category names the model uses
ToLowerCase(name) ==
    CASE name = "Food" -> "food"
      [] name = "Bills" -> "bills"
      [] name = "Salary" -> "salary"
      [] name = "Transport" -> "transport"
      [] name = "Entertainment" -> "entertainment"
      [] name = "Shopping" -> "shopping"
      [] name = "Healthcare" -> "healthcare"
      [] name = "Freelance" -> "freelance"
      [] name = "Investment" -> "investment"
      [] name = "Other" -> "other"
      [] OTHER -> name

\* the lower-case names in the order of the < operator on strings
StringOrder ==
    << "bills", "entertainment", "food", "freelance", "healthcare",
       "investment", "other", "salary", "shopping", "transport" >>

StringRank(str) == CHOOSE i \in 1..Len(StringOrder) : StringOrder[i] = str

\* aValue < bValue for the active sort field
SortLess(field, a, b) ==
    CASE field = "date" -> TimeLT(NewDate(a.date), NewDate(b.date))
      [] field = "amount" -> a.amount < b.amount
      [] field = "category" ->
            StringRank(ToLowerCase(a.category)) < StringRank(ToLowerCase(b.category))

\* the comparator handed to Array.prototype.sort
Compare(field, direction, a, b) ==
    IF direction = "asc"
    THEN (IF SortLess(field, a, b) THEN -1
          ELSE IF SortLess(field, b, a) THEN 1 ELSE 0)
    ELSE (IF SortLess(field, b, a) THEN -1
          ELSE IF SortLess(field, a, b) THEN 1 ELSE 0)

\* Array.prototype.sort is stable: equal rows keep their order
RECURSIVE InsertSorted(_, _, _, _)
InsertSorted(field, direction, s, x) ==
    IF s = << >> THEN << x >>
    ELSE IF Compare(field, direction, s[Len(s)], x) <= 0 THEN Append(s, x)
    ELSE Append(InsertSorted(field, direction, SubSeq(s, 1, Len(s) - 1), x),
                s[Len(s)])

RECURSIVE SortBy(_, _, _)
SortBy(field, direction, s) ==
    IF s = << >> THEN << >>
    ELSE InsertSorted(field, direction,
                      SortBy(field, direction, SubSeq(s, 1, Len(s) - 1)),
                      s[Len(s)])

sortedTransactions == SortBy(sortField, sortDirection, currentMonthTransactions)

\* mutant: the row's own amount instead of the accumulated balance
LedgerRowOwnAmount(t, balance) ==
    [id |-> t.id, amount |-> t.amount, category |-> t.category,
     date |-> t.date, type |-> t.type, runningBalance |-> t.amount]

\* { ...transaction, runningBalance }
LedgerRow(t, balance) ==
    [id |-> t.id, amount |-> t.amount, category |-> t.category,
     date |-> t.date, type |-> t.type, runningBalance |-> balance]

\* runningBalance += transaction.amount, row by row
RECURSIVE WithBalance(_)
WithBalance(s) ==
    IF s = << >> THEN << >>
    ELSE LET prev == WithBalance(SubSeq(s, 1, Len(s) - 1))
             before == IF prev = << >> THEN 0 ELSE prev[Len(prev)].runningBalance
         IN  Append(prev, LedgerRow(s[Len(s)], before + s[Len(s)].amount))

transactionsWithBalance == WithBalance(sortedTransactions)

FallbackColor == "#6b7280"

\* mutant: the colour of the last category of that name
getCategoryColorLast(categoryName) ==
    LET matches == {i \in DOMAIN categories : categories[i].name = categoryName}
        i == IF matches = {} THEN 0
             ELSE CHOOSE k \in matches : \A j \in matches : j <= k
    IN  IF i # 0 /\ categories[i].color # "" THEN categories[i].color
        ELSE FallbackColor

getCategoryColor(categoryName) ==
    LET i == FindCategory(categories, categoryName)
    IN  IF i # 0 /\ categories[i].color # "" THEN categories[i].color
        ELSE FallbackColor

\* DoughnutChart.colors, for one label
chartColor(label) ==
    LET i == FindCategory(categories, label)
    IN  IF i # 0 /\ categories[i].color # "" THEN categories[i].color
        ELSE FallbackColor

----------------------------------------------------------------------------
(* Emergency-fund target: Target *)

\* a quotient num / den with den > 0
Rat(num, den) == [num |-> num, den |-> den]

RatLE(a, b) == a.num * b.den <= b.num * a.den

RatLT(a, b) == a.num * b.den < b.num * a.den

RatMin(a, b) == IF RatLE(a, b) THEN a ELSE b

\* Math.ceil(a / b) for b > 0
CeilDiv(a, b) == -((-a) \div b)

\* a JavaScript number | null used as a condition
Truthy(x) == x # Null /\ ValueOf(x) # 0

dashboardMonthlySavings ==
    IF savingAmount # Null THEN ValueOf(savingAmount) ELSE netBalance

baseBalance == IF Truthy(savingAmount) THEN 0 ELSE SumAmount(transactions)

currentBalance == baseBalance + dashboardMonthlySavings

monthlyIncome ==
    IF monthlyIncomeTarget # Null THEN ValueOf(monthlyIncomeTarget) ELSE 0

finalEmergencyFundGoal ==
    IF emergencyFundGoal # Null THEN ValueOf(emergencyFundGoal) ELSE 0

\* mutant: the difference without Math.max(0, ...)
amountNeededUnclamped == finalEmergencyFundGoal - currentBalance

amountNeeded == Max(0, finalEmergencyFundGoal - currentBalance)

\* the condition under which progressPercentage divides by the goal
progressGuard == finalEmergencyFundGoal > 0

\* mutant: the quotient without Math.min(100, ...)
progressPercentageUncapped ==
    IF progressGuard
    THEN Rat(currentBalance * 100, finalEmergencyFundGoal)
    ELSE Rat(0, 1)

progressPercentage ==
    IF progressGuard
    THEN RatMin(Rat(100, 1), Rat(currentBalance * 100, finalEmergencyFundGoal))
    ELSE Rat(0, 1)

\* mutant: the division also taken for a balance of 0
monthsGuardInclusive == currentBalance >= 0

\* the condition under which monthsToGoal divides by the current balance
monthsGuard == currentBalance > 0

monthsToGoal ==
    IF monthsGuard THEN CeilDiv(finalEmergencyFundGoal, currentBalance) ELSE 0

\* p >= n for a percentage p and a whole number n
RatGE(p, n) == RatLE(Rat(n, 1), p)

\* mutant: 'almost there' only above 75, not at 75
getStatusMessageAbove75(percentage) ==
    IF RatGE(percentage, 100) THEN "Emergency fund goal achieved!"
    ELSE IF RatLT(Rat(75, 1), percentage) THEN "Almost there! Keep going!"
    ELSE IF RatGE(percentage, 50) THEN "Great progress! Halfway to your goal!"
    ELSE IF RatGE(percentage, 25) THEN "Good start! Keep building your fund!"
    ELSE "Start building your emergency fund today!"

\* targetUtils.getStatusMessage; the messages without their leading emoji
getStatusMessage(percentage) ==
    IF RatGE(percentage, 100) THEN "Emergency fund goal achieved!"
    ELSE IF RatGE(percentage, 75) THEN "Almost there! Keep going!"
    ELSE IF RatGE(percentage, 50) THEN "Great progress! Halfway to your goal!"
    ELSE IF RatGE(percentage, 25) THEN "Good start! Keep building your fund!"
    ELSE "Start building your emergency fund today!"

\* the status line of EmergencyFundCard
statusMessage == getStatusMessage(progressPercentage)

----------------------------------------------------------------------------
(* The store: useFinanceStore *)

Category(id, name, color, type) ==
    [id |-> id, name |-> name, color |-> color, type |-> type]

defaultCategories ==
    << Category(1, "Food", "#ef4444", "expense"),
       Category(2, "Transport", "#f97316", "expense"),
       Category(3, "Entertainment", "#eab308", "expense"),
       Category(4, "Shopping", "#22c55e", "expense"),
       Category(5, "Bills", "#3b82f6", "expense"),
       Category(6, "Healthcare", "#8b5cf6", "expense"),
       Category(7, "Salary", "#10b981", "income"),
       Category(8, "Freelance", "#06b6d4", "income"),
       Category(9, "Investment", "#8b5cf6", "income") >>

\* no asynchronous call of the store is in flight
NoCalls ==
    [loadPc |-> "idle", loadData |-> << >>,
     addPc |-> "idle", addInput |-> Null, addData |-> Null]

\* the clock starts past the ids of the default categories
FirstNow == Len(defaultCategories) + 1

InitStore ==
    /\ transactions = << >>
    /\ categories = defaultCategories
    /\ monthlyIncomeTarget = Null
    /\ emergencyFundGoal = Null
    /\ savingAmount = Null
    /\ totalSavings = 0
    /\ sortField = "date"
    /\ sortDirection = "desc"
    /\ nextId = 1

\* SupabaseDebugger.validateTransactionData returns no error
ValidTransactionData(t) ==
    /\ t.amount # 0
    /\ t.category # ""
    /\ t.type \in {"income", "expense"}

\* { ...t, ...updates }
Spread(t, updates) ==
    [f \in DOMAIN t |-> IF f \in DOMAIN updates THEN updates[f] ELSE t[f]]

\* mutant: the transaction appended before the insert is known to succeed
addTransactionOptimistic(transaction, inserted) ==
    /\ Len(transactions) < MaxTx
    /\ nextId <= MaxId
    /\ transactions' =
          Append(transactions,
                 [id |-> nextId, amount |-> transaction.amount,
                  category |-> transaction.category,
                  date |-> transaction.date, type |-> transaction.type])
    /\ IF inserted /\ ValidTransactionData(transaction)
       THEN nextId' = nextId + 1
       ELSE UNCHANGED nextId
    /\ UNCHANGED << categories, monthlyIncomeTarget, emergencyFundGoal,
                    savingAmount, totalSavings, currentMonth, tzOffset,
                    sortField, sortDirection, now, table, calls,
                    dashboard_metrics >>

\* addTransaction: `inserted` is whether authentication and the insert succeed
addTransaction(transaction, inserted) ==
    /\ Len(transactions) < MaxTx
    /\ nextId <= MaxId
    /\ IF inserted /\ ValidTransactionData(transaction)
       THEN /\ transactions' =
                  Append(transactions,
                         [id |-> nextId, amount |-> transaction.amount,
                          category |-> transaction.category,
                          date |-> transaction.date, type |-> transaction.type])
            /\ nextId' = nextId + 1
       ELSE UNCHANGED << transactions, nextId >>
    /\ UNCHANGED << categories, monthlyIncomeTarget, emergencyFundGoal,
                    savingAmount, totalSavings, currentMonth, tzOffset,
                    sortField, sortDirection, now, table, calls,
                    dashboard_metrics >>

updateTransaction(id, updates) ==
    /\ transactions' =
          [i \in DOMAIN transactions |->
              IF transactions[i].id = id
              THEN Spread(transactions[i], updates) ELSE transactions[i]]
    /\ UNCHANGED << categories, monthlyIncomeTarget, emergencyFundGoal,
                    savingAmount, totalSavings, currentMonth, tzOffset,
                    sortField, sortDirection, nextId, now, table, calls,
                    dashboard_metrics >>

NotId(id, r) == r.id # id

deleteTransaction(id) ==
    /\ transactions' = SelectSeq(transactions, LAMBDA t : NotId(id, t))
    /\ UNCHANGED << categories, monthlyIncomeTarget, emergencyFundGoal,
                    savingAmount, totalSavings, currentMonth, tzOffset,
                    sortField, sortDirection, nextId, now, table, calls,
                    dashboard_metrics >>

\* the new category takes Date.now() as its id; every call reads a later
\* millisecond
addCategory(category) ==
    /\ now < FirstNow + MaxCategoryAdds
    /\ categories' = Append(categories,
                            Category(now, category.name, category.color,
                                     category.type))
    /\ now' = now + 1
    /\ UNCHANGED << transactions, monthlyIncomeTarget, emergencyFundGoal,
                    savingAmount, totalSavings, currentMonth, tzOffset,
                    sortField, sortDirection, nextId, table, calls,
                    dashboard_metrics >>

updateCategory(id, updates) ==
    /\ categories' =
          [i \in DOMAIN categories |->
              IF categories[i].id = id
              THEN Spread(categories[i], updates) ELSE categories[i]]
    /\ UNCHANGED << transactions, monthlyIncomeTarget, emergencyFundGoal,
                    savingAmount, totalSavings, currentMonth, tzOffset,
                    sortField, sortDirection, nextId, now, table, calls,
                    dashboard_metrics >>

deleteCategory(id) ==
    /\ categories' = SelectSeq(categories, LAMBDA c : NotId(id, c))
    /\ UNCHANGED << transactions, monthlyIncomeTarget, emergencyFundGoal,
                    savingAmount, totalSavings, currentMonth, tzOffset,
                    sortField, sortDirection, nextId, now, table, calls,
                    dashboard_metrics >>

setMonthlyIncomeTarget(amount) ==
    /\ monthlyIncomeTarget' = amount
    /\ UNCHANGED << transactions, categories, emergencyFundGoal, savingAmount,
                    totalSavings, currentMonth, tzOffset, sortField,
                    sortDirection, nextId, now, table, calls,
                    dashboard_metrics >>

setEmergencyFundGoal(amount) ==
    /\ emergencyFundGoal' = amount
    /\ UNCHANGED << transactions, categories, monthlyIncomeTarget, savingAmount,
                    totalSavings, currentMonth, tzOffset, sortField,
                    sortDirection, nextId, now, table, calls,
                    dashboard_metrics >>

setSavingAmount(amount) ==
    /\ savingAmount' = amount
    /\ UNCHANGED << transactions, categories, monthlyIncomeTarget,
                    emergencyFundGoal, totalSavings, currentMonth, tzOffset,
                    sortField, sortDirection, nextId, now, table, calls,
                    dashboard_metrics >>

setTotalSavings(amount) ==
    /\ totalSavings' = amount
    /\ UNCHANGED << transactions, categories, monthlyIncomeTarget,
                    emergencyFundGoal, savingAmount, currentMonth, tzOffset,
                    sortField, sortDirection, nextId, now, table, calls,
                    dashboard_metrics >>

----------------------------------------------------------------------------
(* Handlers of the views *)

\* mutant: the form's amount stored without the sign of its type
onSubmitUnsigned(data, editing, inserted) ==
    LET transactionData ==
            [amount |-> Abs(data.amount),
             category |-> data.category, date |-> data.date, type |-> data.type]
    IN  IF editing # 0
        THEN updateTransaction(editing, transactionData)
        ELSE addTransaction(transactionData, inserted)

\* TransactionModal.onSubmit: `editing` is the id of the transaction being
\* edited, 0 when the modal adds one
onSubmit(data, editing, inserted) ==
    LET transactionData ==
            [amount |-> IF data.type = "expense"
                        THEN -Abs(data.amount) ELSE Abs(data.amount),
             category |-> data.category, date |-> data.date, type |-> data.type]
    IN  IF editing # 0
        THEN updateTransaction(editing, transactionData)
        ELSE addTransaction(transactionData, inserted)

\* String.prototype.trim on the names the Settings form is given
Trim(name) == IF name = " " THEN "" ELSE name

\* Settings.handleAddCategory
handleAddCategory(newCategory) ==
    /\ Trim(newCategory.name) # ""
    /\ addCategory(newCategory)

\* Settings.handleDeleteCategory: `confirmed` is the answer to confirm()
handleDeleteCategory(id, confirmed) ==
    /\ confirmed
    /\ deleteCategory(id)

\* mutant: the sort applied to the store's list in place
handleSortInPlace(field) ==
    /\ IF sortField = field
       THEN /\ sortDirection' = (IF sortDirection = "asc" THEN "desc" ELSE "asc")
            /\ UNCHANGED sortField
       ELSE /\ sortField' = field
            /\ sortDirection' = "asc"
    /\ transactions' = SortBy(sortField', sortDirection', transactions)
    /\ UNCHANGED << categories, monthlyIncomeTarget, emergencyFundGoal,
                    savingAmount, totalSavings, currentMonth, tzOffset, nextId,
                    now, table, calls, dashboard_metrics >>

\* MonthlyLedger.handleSort
handleSort(field) ==
    /\ IF sortField = field
       THEN /\ sortDirection' = (IF sortDirection = "asc" THEN "desc" ELSE "asc")
            /\ UNCHANGED sortField
       ELSE /\ sortField' = field
            /\ sortDirection' = "asc"
    /\ UNCHANGED << transactions, categories, monthlyIncomeTarget,
                    emergencyFundGoal, savingAmount, totalSavings, currentMonth,
                    tzOffset, nextId, now, table, calls, dashboard_metrics >>

\* InlineEdit.handleSave of a parsed number: onSave only for a value >= 0
InlineEditAccepts(numValue) == numValue >= 0

\* Target.handleEmergencyFundGoalChange behind its InlineEdit
handleEmergencyFundGoalChange(value) ==
    /\ InlineEditAccepts(value)
    /\ setEmergencyFundGoal(Some(value))

\* Target.handleSavingAmountChange behind its InlineEdit
handleSavingAmountChange(value) ==
    /\ InlineEditAccepts(value)
    /\ Abs(value - dashboardMonthlySavings) <= MaxSaving
    /\ setSavingAmount(Some(value - dashboardMonthlySavings))

\* Target.handleMonthlyIncomeChange behind its InlineEdit
handleMonthlyIncomeChange(value) ==
    /\ InlineEditAccepts(value)
    /\ setMonthlyIncomeTarget(Some(value))

\* Dashboard.handleTotalSavingsChange behind its InlineEdit
handleTotalSavingsChange(value) ==
    /\ InlineEditAccepts(value)
    /\ setTotalSavings(value)

\* Dashboard.handleSavingAmountChange behind its InlineEdit
dashboardHandleSavingAmountChange(value) ==
    /\ InlineEditAccepts(value)
    /\ setSavingAmount(Some(value))

----------------------------------------------------------------------------
(* Inputs *)

Types == {"income", "expense"}

Amounts == (-MaxAmount)..MaxAmount

FormAmounts == 1..MaxFormAmount

Transaction(amount, category, date, type) ==
    [amount |-> amount, category |-> category, date |-> date, type |-> type]

\* the month the aggregation, ledger and target specifications look at
ThisMonth == Date(2025, 1, 15)

InMonthDates == {Date(2025, 1, 10), Date(2025, 1, 20)}

OutOfMonthDate == Date(2024, 12, 20)

----------------------------------------------------------------------------
(* Specification Spec: the store's own operations under the Dashboard *)

StoreNames == {"Food", "Salary"}

StoreDates == {Date(2025, 1, 10), OutOfMonthDate}

\* partial updates: the amount 0 (which addTransaction rejects), a type, a category
StoreUpdates == {[amount |-> 0], [type |-> "expense"], [category |-> "Salary"]}

IdsOf(s) == {s[i].id : i \in DOMAIN s}

Init ==
    /\ InitStore
    /\ currentMonth = ThisMonth
    /\ tzOffset = 0
    /\ now = FirstNow
    /\ table = << >>
    /\ calls = NoCalls
    /\ dashboard_metrics = {}

StoreAdd ==
    \E a \in Amounts, c \in StoreNames, d \in StoreDates, ty \in Types,
       inserted \in BOOLEAN :
        addTransaction(Transaction(a, c, d, ty), inserted)

StoreUpdate ==
    \E id \in IdsOf(transactions), updates \in StoreUpdates :
        updateTransaction(id, updates)

StoreDeleteCategory == \E id \in {1} : deleteCategory(id)

Next == StoreAdd \/ StoreUpdate \/ StoreDeleteCategory

Spec == Init /\ [][Next]_vars

----------------------------------------------------------------------------
(* Specification SpecPeriod: the month window under every clock *)

TzOffsets == {-12 * 60, -5 * 60, 0, 5 * 60 + 30, 14 * 60}

ReferenceDates == {Date(2024, 2, 15), Date(2023, 12, 31), Date(2025, 1, 1)}

FirstDayOf(r) == Date(r.y, r.m, 1)

LastDayOf(r) == Date(r.y, r.m, DaysInMonth(r.y, r.m))

PreviousDay(dt) ==
    IF dt.d > 1 THEN Date(dt.y, dt.m, dt.d - 1)
    ELSE IF dt.m > 1 THEN Date(dt.y, dt.m - 1, DaysInMonth(dt.y, dt.m - 1))
    ELSE Date(dt.y - 1, 12, 31)

NextDay(dt) ==
    IF dt.d < DaysInMonth(dt.y, dt.m) THEN Date(dt.y, dt.m, dt.d + 1)
    ELSE IF dt.m < 12 THEN Date(dt.y, dt.m + 1, 1)
    ELSE Date(dt.y + 1, 1, 1)

\* the days at and around the ends of the reference months
PeriodDates ==
    UNION {{PreviousDay(FirstDayOf(r)), FirstDayOf(r), NextDay(FirstDayOf(r)),
            LastDayOf(r), NextDay(LastDayOf(r))} : r \in ReferenceDates}

InitPeriod ==
    /\ InitStore
    /\ currentMonth \in ReferenceDates
    /\ tzOffset \in TzOffsets
    /\ now = FirstNow
    /\ table = << >>
    /\ calls = NoCalls
    /\ dashboard_metrics = {}

PeriodSubmit ==
    \E d \in PeriodDates, ty \in Types, inserted \in BOOLEAN :
        onSubmit(Transaction(1, "Food", d, ty), 0, inserted)

PeriodDelete == \E id \in IdsOf(transactions) : deleteTransaction(id)

NextPeriod == PeriodSubmit \/ PeriodDelete

SpecPeriod == InitPeriod /\ [][NextPeriod]_vars

----------------------------------------------------------------------------
(* Specification SpecLedger: the Monthly Ledger over transactions entered  *)
(* through the modal                                                       *)

LedgerNames == {"Food", "Bills"}

LedgerDates == InMonthDates \cup {OutOfMonthDate}

LedgerSubmit ==
    \E a \in FormAmounts, c \in LedgerNames, d \in LedgerDates, ty \in Types,
       inserted \in BOOLEAN :
        onSubmit(Transaction(a, c, d, ty), 0, inserted)

LedgerSort == \E field \in {"date", "amount", "category"} : handleSort(field)

NextLedger == LedgerSubmit \/ LedgerSort

SpecLedger == Init /\ [][NextLedger]_vars

----------------------------------------------------------------------------
(* Specification SpecTarget: the Target screen *)

TargetDates == {Date(2025, 1, 10), OutOfMonthDate}

TargetSubmit ==
    \E a \in FormAmounts, d \in TargetDates, ty \in Types, inserted \in BOOLEAN :
        onSubmit(Transaction(a, "Food", d, ty), 0, inserted)

TargetEditGoal == \E value \in 0..MaxGoal : handleEmergencyFundGoalChange(value)

TargetSetGoal == \E amount \in {Null, Some(-1)} : setEmergencyFundGoal(amount)

TargetEditSaving == \E value \in 0..MaxSaving : handleSavingAmountChange(value)

DashboardEditSaving ==
    \E value \in 0..MaxSaving : dashboardHandleSavingAmountChange(value)

TargetSetSaving == setSavingAmount(Null)

NextTarget ==
    \/ TargetSubmit
    \/ TargetEditGoal
    \/ TargetSetGoal
    \/ TargetEditSaving
    \/ DashboardEditSaving
    \/ TargetSetSaving

SpecTarget == Init /\ [][NextTarget]_vars

----------------------------------------------------------------------------
(* Specification SpecCategories: the category list under the Settings      *)
(* screen and the store's updateCategory                                   *)

CategoryNames == {"Food", "Gifts", "", " "}

FormColor == "#3b82f6"

\* the categories added since the defaults
AddedIds == {id \in IdsOf(categories) : id >= FirstNow}

CategoriesAdd ==
    \E name \in CategoryNames, ty \in Types :
        handleAddCategory([name |-> name, color |-> FormColor, type |-> ty])

CategoriesUpdate ==
    \E id \in AddedIds : updateCategory(id, [name |-> "Salary"])

CategoriesDelete ==
    \E id \in IdsOf(categories), confirmed \in BOOLEAN :
        handleDeleteCategory(id, confirmed)

NextCategories == CategoriesAdd \/ CategoriesUpdate \/ CategoriesDelete

SpecCategories == Init /\ [][NextCategories]_vars

----------------------------------------------------------------------------
(* Specification SpecIds: updateTransaction under every shape of `updates` *)
(* its type Partial<Transaction> admits                                    *)

IdsUpdates ==
    {[id |-> k] : k \in 1..MaxId}
        \cup {[amount |-> 2], [category |-> "Bills", type |-> "expense"]}

IdsSubmit ==
    \E a \in FormAmounts, ty \in Types, inserted \in BOOLEAN :
        onSubmit(Transaction(a, "Food", ThisMonth, ty), 0, inserted)

IdsEdit ==
    \E editing \in IdsOf(transactions), ty \in Types :
        onSubmit(Transaction(1, "Salary", ThisMonth, ty), editing, TRUE)

IdsUpdate ==
    \E id \in IdsOf(transactions), updates \in IdsUpdates :
        updateTransaction(id, updates)

IdsDelete == \E id \in IdsOf(transactions) : deleteTransaction(id)

NextIds == IdsSubmit \/ IdsEdit \/ IdsUpdate \/ IdsDelete

SpecIds == Init /\ [][NextIds]_vars

----------------------------------------------------------------------------
(* The persistence service: FinanceService *)

\* createTransaction: the table accepts a row whose type passes its CHECK and
\* gives it the next id
createTransaction(transaction) ==
    /\ Len(table) < MaxRows
    /\ transaction.type \in Types
    /\ table' = Append(table,
                       [id |-> nextId, amount |-> transaction.amount,
                        category |-> transaction.category,
                        date |-> transaction.date, type |-> transaction.type])
    /\ nextId' = nextId + 1
    /\ UNCHANGED << transactions, categories, monthlyIncomeTarget,
                    emergencyFundGoal, savingAmount, totalSavings, currentMonth,
                    tzOffset, sortField, sortDirection, now, calls,
                    dashboard_metrics >>

RECURSIVE AddDays(_, _)
AddDays(dt, n) ==
    IF n = 0 THEN dt
    ELSE IF n > 0 THEN AddDays(NextDay(dt), n - 1)
    ELSE AddDays(PreviousDay(dt), n + 1)

\* new Date(y, monthIndex, day) for a calendar date: local midnight, in minutes
\* since 1970-01-01T00:00Z
LocalMidnight(dt) == DayNumber(dt) * MinutesPerDay - tzOffset

\* toISOString().split('T')[0]: the UTC calendar date of an instant, counted
\* from a calendar date near it
ToISODate(minutes, near) ==
    AddDays(near, (minutes \div MinutesPerDay) - DayNumber(near))

\* `${year}-${month padded to two digits}-01`, read by the table as a date
overviewStartDate(year, month) == Date(year, month, 1)

\* mutant: the last day of the month without the passage through UTC
overviewEndDateLocal(year, month) ==
    Date(year, month, DaysInMonth(year, month))

\* new Date(year, month, 0).toISOString().split('T')[0]: day 0 of the next
\* month index is the last day of `month`
overviewEndDate(year, month) ==
    LET lastDay == Date(year, month, DaysInMonth(year, month))
    IN  ToISODate(LocalMidnight(lastDay), lastDay)

\* .order('date', { ascending: false }); rows of one date stay in table order
RECURSIVE OrderByDateDesc(_)
OrderByDateDesc(rows) ==
    IF rows = << >> THEN << >>
    ELSE LET rest == OrderByDateDesc(SubSeq(rows, 1, Len(rows) - 1))
             r == rows[Len(rows)]
             k == Cardinality({i \in DOMAIN rest :
                                  DayNumber(rest[i].date) >= DayNumber(r.date)})
         IN  SubSeq(rest, 1, k) \o << r >> \o SubSeq(rest, k + 1, Len(rest))

\* getTransactions(userId, { startDate, endDate })
getTransactions(startDate, endDate) ==
    OrderByDateDesc(
        SelectSeq(table,
                  LAMBDA r : /\ DayNumber(r.date) >= DayNumber(startDate)
                             /\ DayNumber(r.date) <= DayNumber(endDate)))

\* the Map of getTopCategories, as its entries in insertion order
RECURSIVE categoryMap(_)
categoryMap(rows) ==
    IF rows = << >> THEN << >>
    ELSE LET map == categoryMap(SubSeq(rows, 1, Len(rows) - 1))
             transaction == rows[Len(rows)]
             at == {i \in DOMAIN map : map[i].category = transaction.category}
         IN  IF at = {}
             THEN Append(map, [category |-> transaction.category,
                               amount |-> 0 + Abs(transaction.amount),
                               count |-> 0 + 1])
             ELSE [i \in DOMAIN map |->
                      IF i \in at
                      THEN [category |-> map[i].category,
                            amount |-> map[i].amount + Abs(transaction.amount),
                            count |-> map[i].count + 1]
                      ELSE map[i]]

\* .sort((a, b) => b.amount - a.amount): stable, larger amounts first
RECURSIVE SortByAmountDesc(_)
SortByAmountDesc(entries) ==
    IF entries = << >> THEN << >>
    ELSE LET rest == SortByAmountDesc(SubSeq(entries, 1, Len(entries) - 1))
             e == entries[Len(entries)]
             k == Cardinality({i \in DOMAIN rest : rest[i].amount >= e.amount})
         IN  SubSeq(rest, 1, k) \o << e >> \o SubSeq(rest, k + 1, Len(rest))

\* mutant: the entries in insertion order, not sorted
getTopCategoriesUnsorted(rows) ==
    LET entries == categoryMap(rows)
    IN  SubSeq(entries, 1, Min(TopLimit, Len(entries)))

getTopCategories(rows) ==
    LET entries == SortByAmountDesc(categoryMap(rows))
    IN  SubSeq(entries, 1, Min(TopLimit, Len(entries)))

getMonthlyOverview(year, month) ==
    LET rows == getTransactions(overviewStartDate(year, month),
                                overviewEndDate(year, month))
    IN  [transactions |-> rows,
         summary |->
            [totalIncome |-> SumAmount(SelectSeq(rows, IsIncome)),
             totalExpenses |-> SumAbsAmount(SelectSeq(rows, IsExpense)),
             transactionCount |-> Len(rows),
             topCategories |-> getTopCategories(rows)]]

----------------------------------------------------------------------------
(* Specification SpecOverview: the monthly overview over the rows of one   *)
(* month. Category names are interchangeable to the summary, so an expense *)
(* name not yet in the table is taken in list order.                       *)

ExpenseNames ==
    << "Food", "Transport", "Entertainment", "Shopping", "Bills", "Healthcare" >>

OverviewAmounts == {1, 2}

\* the expense names the next row may carry: those in the table and one more
NextExpenseNames ==
    LET used == {k \in DOMAIN ExpenseNames :
                    \E i \in DOMAIN table : table[i].category = ExpenseNames[k]}
    IN  {ExpenseNames[k] : k \in 1..Min(Len(ExpenseNames), Cardinality(used) + 1)}

\* an expense row carries -|amount|, an income row +|amount|, as
\* TransactionModal builds them
OverviewCreate ==
    \/ \E a \in OverviewAmounts, c \in NextExpenseNames :
          createTransaction(Transaction(-a, c, Date(2025, 1, 10), "expense"))
    \/ \E a \in OverviewAmounts :
          createTransaction(Transaction(a, "Salary", Date(2025, 1, 31), "income"))

\* clocks behind, at and ahead of UTC
OverviewOffsets == {-5 * 60, 0, 5 * 60 + 30}

InitOverview ==
    /\ InitStore
    /\ currentMonth = ThisMonth
    /\ tzOffset \in OverviewOffsets
    /\ now = FirstNow
    /\ table = << >>
    /\ calls = NoCalls
    /\ dashboard_metrics = {}

NextOverview == OverviewCreate

SpecOverview == InitOverview /\ [][NextOverview]_vars

----------------------------------------------------------------------------
(* Specification SpecOrphans: transactions whose category is deleted on    *)
(* the Settings screen                                                     *)

OrphanNames == {"Food", "Salary"}

OrphanDeleteIds == {1, 7} \cup AddedIds

OrphanSubmit ==
    \E c \in OrphanNames, ty \in Types, inserted \in BOOLEAN :
        onSubmit(Transaction(1, c, Date(2025, 1, 10), ty), 0, inserted)

OrphanAddCategory ==
    \E name \in OrphanNames, ty \in Types :
        handleAddCategory([name |-> name, color |-> FormColor, type |-> ty])

OrphanDeleteCategory ==
    \E id \in OrphanDeleteIds, confirmed \in BOOLEAN :
        handleDeleteCategory(id, confirmed)

NextOrphans == OrphanSubmit \/ OrphanAddCategory \/ OrphanDeleteCategory

SpecOrphans == Init /\ [][NextOrphans]_vars

----------------------------------------------------------------------------
(* Specification SpecEdits: the target parameters under the InlineEdit     *)
(* editors of the Dashboard and the Target screen                          *)

\* what the user types: a parsed number, negative ones included
EditValues == (-1)..MaxSaving

EditsSubmit ==
    \E ty \in Types, inserted \in BOOLEAN :
        onSubmit(Transaction(1, "Food", Date(2025, 1, 10), ty), 0, inserted)

EditsGoal == \E value \in EditValues : handleEmergencyFundGoalChange(value)

EditsMonthlyIncome == \E value \in EditValues : handleMonthlyIncomeChange(value)

EditsTargetSaving == \E value \in EditValues : handleSavingAmountChange(value)

EditsDashboardSaving ==
    \E value \in EditValues : dashboardHandleSavingAmountChange(value)

EditsTotalSavings == \E value \in EditValues : handleTotalSavingsChange(value)

NextEdits ==
    \/ EditsSubmit
    \/ EditsGoal
    \/ EditsMonthlyIncome
    \/ EditsTargetSaving
    \/ EditsDashboardSaving
    \/ EditsTotalSavings

SpecEdits == Init /\ [][NextEdits]_vars

----------------------------------------------------------------------------
(* The store revision that loads from persistence: loadTransactions and   *)
(* its addTransaction, one step per await                                  *)

\* loadTransactions up to its first await: supabase.auth.getUser()
LoadGetUser(user) ==
    /\ calls.loadPc \in {"idle", "done"}
    /\ calls' = [calls EXCEPT !.loadPc = IF user THEN "select" ELSE "done",
                              !.loadData = << >>]
    /\ UNCHANGED << transactions, categories, monthlyIncomeTarget,
                    emergencyFundGoal, savingAmount, totalSavings, currentMonth,
                    tzOffset, sortField, sortDirection, nextId, now, table,
                    dashboard_metrics >>

\* the select of the user's rows, newest date first; `ok` is its error-free
\* answer
LoadSelect(ok) ==
    /\ calls.loadPc = "select"
    /\ calls' = [calls EXCEPT !.loadPc = IF ok THEN "set" ELSE "done",
                              !.loadData = IF ok THEN OrderByDateDesc(table)
                                           ELSE << >>]
    /\ UNCHANGED << transactions, categories, monthlyIncomeTarget,
                    emergencyFundGoal, savingAmount, totalSavings, currentMonth,
                    tzOffset, sortField, sortDirection, nextId, now, table,
                    dashboard_metrics >>

\* set({ transactions: data || [] })
LoadSet ==
    /\ calls.loadPc = "set"
    /\ transactions' = calls.loadData
    /\ calls' = [calls EXCEPT !.loadPc = "done"]
    /\ UNCHANGED << categories, monthlyIncomeTarget, emergencyFundGoal,
                    savingAmount, totalSavings, currentMonth, tzOffset,
                    sortField, sortDirection, nextId, now, table,
                    dashboard_metrics >>

\* addTransaction up to its first await: supabase.auth.getUser()
AddGetUser(transaction, user) ==
    /\ calls.addPc \in {"idle", "done"}
    /\ calls' = [calls EXCEPT !.addPc = IF user THEN "insert" ELSE "done",
                              !.addInput = Some(transaction),
                              !.addData = Null]
    /\ UNCHANGED << transactions, categories, monthlyIncomeTarget,
                    emergencyFundGoal, savingAmount, totalSavings, currentMonth,
                    tzOffset, sortField, sortDirection, nextId, now, table,
                    dashboard_metrics >>

\* the insert and its .select().single(); `ok` is its error-free answer
AddInsert(ok) ==
    /\ calls.addPc = "insert"
    /\ Len(table) < MaxTx
    /\ nextId <= MaxId
    /\ LET transaction == ValueOf(calls.addInput)
           data == [id |-> nextId, amount |-> transaction.amount,
                    category |-> transaction.category,
                    date |-> transaction.date, type |-> transaction.type]
       IN  IF ok
           THEN /\ table' = Append(table, data)
                /\ nextId' = nextId + 1
                /\ calls' = [calls EXCEPT !.addPc = "set",
                                          !.addData = Some(data)]
           ELSE /\ calls' = [calls EXCEPT !.addPc = "done"]
                /\ UNCHANGED << table, nextId >>
    /\ UNCHANGED << transactions, categories, monthlyIncomeTarget,
                    emergencyFundGoal, savingAmount, totalSavings, currentMonth,
                    tzOffset, sortField, sortDirection, now,
                    dashboard_metrics >>

\* set((state) => ({ transactions: [data, ...state.transactions] }))
AddSet ==
    /\ calls.addPc = "set"
    /\ transactions' = << ValueOf(calls.addData) >> \o transactions
    /\ calls' = [calls EXCEPT !.addPc = "done"]
    /\ UNCHANGED << categories, monthlyIncomeTarget, emergencyFundGoal,
                    savingAmount, totalSavings, currentMonth, tzOffset,
                    sortField, sortDirection, nextId, now, table,
                    dashboard_metrics >>

----------------------------------------------------------------------------
(* Specification SpecLoad: loadTransactions and addTransaction of that     *)
(* revision, interleaved at their awaits                                   *)

LoadDates == {Date(2025, 1, 10), Date(2025, 1, 20)}

LoadStart == \E user \in BOOLEAN : LoadGetUser(user)

LoadAnswer == \E ok \in BOOLEAN : LoadSelect(ok)

AddStart ==
    \E d \in LoadDates, ty \in Types, user \in BOOLEAN :
        AddGetUser(Transaction(IF ty = "expense" THEN -1 ELSE 1, "Food", d, ty),
                   user)

AddAnswer == \E ok \in BOOLEAN : AddInsert(ok)

NextLoad ==
    LoadStart \/ LoadAnswer \/ LoadSet \/ AddStart \/ AddAnswer \/ AddSet

SpecLoad == Init /\ [][NextLoad]_vars

----------------------------------------------------------------------------
(* The trigger trigger_update_dashboard_metrics on transactions            *)

\* a column of the row variable NEW (new) or OLD (old), NULL when the operation has no
\* such row
ColumnOf(row, column) == IF row = Null THEN Null ELSE Some(ValueOf(row)[column])

\* VALUES (..., COALESCE(NEW.date, OLD.date), 0, 0, 0, 0)
MetricsValues(new, old) ==
    [metric_date |-> IF new # Null THEN ValueOf(new).date ELSE ValueOf(old).date,
     monthly_income |-> 0, monthly_expenses |-> 0, transaction_count |-> 0]

\* DO UPDATE SET ...: the three CASE expressions on the row in conflict
MetricsDoUpdate(m, TG_OP, new, old) ==
    [m EXCEPT
       !.monthly_income =
           IF ColumnOf(new, "type") = Some("income")
           THEN m.monthly_income + ValueOf(new).amount
           ELSE IF ColumnOf(old, "type") = Some("income") /\ TG_OP = "DELETE"
           THEN m.monthly_income - ValueOf(old).amount
           ELSE m.monthly_income,
       !.monthly_expenses =
           IF ColumnOf(new, "type") = Some("expense")
           THEN m.monthly_expenses + Abs(ValueOf(new).amount)
           ELSE IF ColumnOf(old, "type") = Some("expense") /\ TG_OP = "DELETE"
           THEN m.monthly_expenses - Abs(ValueOf(old).amount)
           ELSE m.monthly_expenses,
       !.transaction_count =
           IF TG_OP = "INSERT" THEN m.transaction_count + 1
           ELSE IF TG_OP = "DELETE" THEN m.transaction_count - 1
           ELSE m.transaction_count]

\* update_dashboard_metrics(): INSERT ... ON CONFLICT (user_id, metric_date)
\* DO UPDATE, on the metrics rows of the one user
update_dashboard_metrics(metrics, TG_OP, new, old) ==
    LET values == MetricsValues(new, old)
        conflict == {m \in metrics : m.metric_date = values.metric_date}
    IN  IF conflict = {}
        THEN metrics \cup {values}
        ELSE {IF m \in conflict THEN MetricsDoUpdate(m, TG_OP, new, old) ELSE m :
                  m \in metrics}

\* INSERT INTO transactions, and the trigger AFTER INSERT for the row
InsertTransaction(transaction) ==
    /\ Len(table) < MaxTx
    /\ nextId <= MaxId
    /\ LET new == [id |-> nextId, amount |-> transaction.amount,
                   category |-> transaction.category,
                   date |-> transaction.date, type |-> transaction.type]
       IN  /\ table' = Append(table, new)
           /\ dashboard_metrics' =
                 update_dashboard_metrics(dashboard_metrics, "INSERT",
                                          Some(new), Null)
    /\ nextId' = nextId + 1
    /\ UNCHANGED << transactions, categories, monthlyIncomeTarget,
                    emergencyFundGoal, savingAmount, totalSavings, currentMonth,
                    tzOffset, sortField, sortDirection, now, calls >>

\* UPDATE transactions SET amount, type WHERE id = table[i].id, and the
\* trigger AFTER UPDATE for the row
UpdateTransaction(i, amount, type) ==
    /\ i \in DOMAIN table
    /\ \A m \in dashboard_metrics :
           m.monthly_income + m.monthly_expenses < MaxMetric
    /\ LET old == table[i]
           new == [old EXCEPT !.amount = amount, !.type = type]
       IN  /\ table' = [table EXCEPT ![i] = new]
           /\ dashboard_metrics' =
                 update_dashboard_metrics(dashboard_metrics, "UPDATE",
                                          Some(new), Some(old))
    /\ UNCHANGED << transactions, categories, monthlyIncomeTarget,
                    emergencyFundGoal, savingAmount, totalSavings, currentMonth,
                    tzOffset, sortField, sortDirection, nextId, now, calls >>

\* DELETE FROM transactions WHERE id = table[i].id, and the trigger AFTER
\* DELETE for the row
DeleteTransaction(i) ==
    /\ i \in DOMAIN table
    /\ LET old == table[i]
       IN  /\ table' = SelectSeq(table, LAMBDA r : r.id # old.id)
           /\ dashboard_metrics' =
                 update_dashboard_metrics(dashboard_metrics, "DELETE",
                                          Null, Some(old))
    /\ UNCHANGED << transactions, categories, monthlyIncomeTarget,
                    emergencyFundGoal, savingAmount, totalSavings, currentMonth,
                    tzOffset, sortField, sortDirection, nextId, now, calls >>

----------------------------------------------------------------------------
(* Specification SpecMetrics: statements on transactions, each followed by *)
(* its row trigger                                                         *)

MetricDates == {Date(2025, 1, 10), Date(2025, 1, 20)}

\* the signed amounts a row of a type carries
MetricAmounts(type) ==
    IF type = "income" THEN 1..MaxAmount
    ELSE {-a : a \in 1..MaxAmount}

MetricsInsert ==
    \E d \in MetricDates, ty \in Types :
        \E a \in MetricAmounts(ty) :
            InsertTransaction(Transaction(a, "Food", d, ty))

MetricsUpdate ==
    \E i \in 1..MaxTx, ty \in Types :
        \E a \in MetricAmounts(ty) : UpdateTransaction(i, a, ty)

MetricsDelete == \E i \in 1..MaxTx : DeleteTransaction(i)

NextMetrics == MetricsInsert \/ MetricsUpdate \/ MetricsDelete

SpecMetrics == Init /\ [][NextMetrics]_vars

----------------------------------------------------------------------------
(* Claims *)

DateLE(a, b) ==
    \/ a.y < b.y
    \/ a.y = b.y /\ a.m < b.m
    \/ a.y = b.y /\ a.m = b.m /\ a.d <= b.d

InCurrentMonthSet(t) ==
    \E j \in DOMAIN currentMonthTransactions : currentMonthTransactions[j].id = t.id

\* C1: a transaction is in the current-month set iff its calendar date lies
\* between the first and the last calendar day of the reference date's month,
\* both ends inclusive, for every UTC offset of the local clock.
C1_MonthWindowInclusive ==
    \A i \in DOMAIN transactions :
        InCurrentMonthSet(transactions[i])
        <=> /\ DateLE(FirstDayOf(currentMonth), transactions[i].date)
            /\ DateLE(transactions[i].date, LastDayOf(currentMonth))

\* sum of the amounts (absolute when `absolute`) of the rows of s at the indices I
RECURSIVE SumAt(_, _, _)
SumAt(I, s, absolute) ==
    IF I = {} THEN 0
    ELSE LET i == CHOOSE k \in I : TRUE
         IN  (IF absolute THEN Abs(s[i].amount) ELSE s[i].amount)
             + SumAt(I \ {i}, s, absolute)

IncomeAt(s) == {i \in DOMAIN s : s[i].type = "income"}

ExpenseAt(s) == {i \in DOMAIN s : s[i].type = "expense"}

RemoveAt(s, i) == SubSeq(s, 1, i - 1) \o SubSeq(s, i + 1, Len(s))

\* C2: totalExpenses is the sum of the absolute amounts of the included expense
\* transactions, hence >= 0 whatever the stored sign of each amount.
C2_TotalExpensesAbsolute ==
    LET cmt == currentMonthTransactions
        total == totalExpenses
    IN  /\ total = SumAt(ExpenseAt(cmt), cmt, TRUE)
        /\ total >= 0

\* C2 witness: included expenses stored with a negative and with a positive amount
C2_Witness ==
    LET cmt == currentMonthTransactions
    IN  \E i, j \in ExpenseAt(cmt) : cmt[i].amount < 0 /\ cmt[j].amount > 0

\* C3: every included transaction contributes to exactly one of totalIncome and
\* totalExpenses, chosen by its type: taking an income transaction out changes
\* only totalIncome (by its amount) and neither totalExpenses nor the category
\* breakdown; taking an expense out changes totalExpenses (by its absolute
\* amount) and not totalIncome; none is counted in both or in neither.
C3_ExactlyOneBucket ==
    LET cmt == currentMonthTransactions
        income == totalIncome
        expenses == totalExpenses
        breakdown == expensesByCategory
    IN  /\ Len(SelectSeq(cmt, IsIncome)) + Len(SelectSeq(cmt, IsExpense)) = Len(cmt)
        /\ \A i \in DOMAIN cmt :
              LET t == cmt[i]
                  rest == RemoveAt(cmt, i)
              IN  /\ t.type = "income" =>
                        /\ IncomeTotal(rest) = income - t.amount
                        /\ ExpenseTotal(rest) = expenses
                        /\ ExpensesByCategoryOf(categories, rest) = breakdown
                  /\ t.type = "expense" =>
                        /\ IncomeTotal(rest) = income
                        /\ ExpenseTotal(rest) = expenses - Abs(t.amount)

\* C3 witness: an income and an expense of the same category, both included
C3_Witness ==
    LET cmt == currentMonthTransactions
    IN  \E i \in IncomeAt(cmt), j \in ExpenseAt(cmt) :
            /\ cmt[i].category = cmt[j].category
            /\ cmt[i].amount # 0
            /\ cmt[j].amount # 0

\* the example of the specification, January 2025
ExampleTransactions ==
    << [id |-> 1, amount |-> 1000, category |-> "Salary",
        date |-> Date(2025, 1, 5), type |-> "income"],
       [id |-> 2, amount |-> -200, category |-> "Food",
        date |-> Date(2025, 1, 10), type |-> "expense"],
       [id |-> 3, amount |-> -50, category |-> "Food",
        date |-> Date(2025, 1, 15), type |-> "expense"] >>

\* C4: netBalance is the signed sum of the included income amounts minus the sum
\* of the absolute included expense amounts; the example (income 1000, expenses
\* -200 and -50) gives 750.
C4_NetBalance ==
    LET cmt == currentMonthTransactions
        signedIncome == SumAt(IncomeAt(cmt), cmt, FALSE)
    IN  /\ netBalance = signedIncome - SumAt(ExpenseAt(cmt), cmt, TRUE)
        /\ totalIncome = signedIncome
        /\ NetBalanceOf(ExampleTransactions) = 750

\* C4 witness: an included income stored negative beside an included expense
C4_Witness ==
    LET cmt == currentMonthTransactions
    IN  \E i \in IncomeAt(cmt), j \in ExpenseAt(cmt) :
            cmt[i].amount < 0 /\ cmt[j].amount < 0

ResolvedName(t) ==
    IF t.category # "" /\ \E k \in DOMAIN categories : categories[k].name = t.category
    THEN t.category ELSE "Other"

C6_RunningBalance ==
    LET cmt == currentMonthTransactions
        sorted == sortedTransactions
        rows == transactionsWithBalance
    IN  /\ Len(rows) = Len(sorted)
        /\ \A i \in DOMAIN rows :
              /\ rows[i].id = sorted[i].id
              /\ rows[i].amount = sorted[i].amount
              /\ rows[i].runningBalance = SumAt(1..i, sorted, FALSE)
        /\ rows # << >> =>
              rows[Len(rows)].runningBalance = SumAt(DOMAIN cmt, cmt, FALSE)

\* C6 witness: two rows of opposite sign, displayed in another order than stored
C6_Witness ==
    LET rows == transactionsWithBalance
    IN  /\ Len(rows) >= 2
        /\ sortedTransactions # currentMonthTransactions
        /\ \E i, j \in DOMAIN rows : rows[i].amount < 0 /\ rows[j].amount > 0

\* C7: percentComplete is never negative, never exceeds 100, and is 0 whenever
\* goal <= 0, also for a negative current balance.
C7_PercentWithinBounds ==
    /\ RatLE(Rat(0, 1), progressPercentage)
    /\ RatLE(progressPercentage, Rat(100, 1))
    /\ finalEmergencyFundGoal <= 0 => progressPercentage.num = 0

\* C8: monthsToGoal is 0 when the monthly contribution is <= 0 and otherwise
\* ceil(amountNeeded / monthlyContribution), amountNeeded being
\* max(0, goal - currentBalance).
C8_MonthsToGoal ==
    monthsToGoal =
       IF dashboardMonthlySavings <= 0 THEN 0
       ELSE CeilDiv(Max(0, finalEmergencyFundGoal - currentBalance),
                    dashboardMonthlySavings)

\* C9: whenever the goal is already met (currentBalance >= goal > 0) the tracker
\* reports amountNeeded = 0, percentComplete = 100 and monthsToGoal = 0.
C9_GoalAlreadyMet ==
    (currentBalance >= finalEmergencyFundGoal /\ finalEmergencyFundGoal > 0) =>
        /\ amountNeeded = 0
        /\ progressPercentage.num = 100 * progressPercentage.den
        /\ monthsToGoal = 0

\* C10: amountNeeded is max(0, goal - currentBalance): never negative, 0 exactly
\* when currentBalance >= goal, and the difference otherwise.
C10_AmountNeeded ==
    /\ amountNeeded >= 0
    /\ amountNeeded = 0 <=> currentBalance >= finalEmergencyFundGoal
    /\ currentBalance < finalEmergencyFundGoal =>
          amountNeeded = finalEmergencyFundGoal - currentBalance

\* C10 witness: the balance has passed a positive goal, so the difference is
\* negative and the clamp acts
C10_Witness ==
    /\ finalEmergencyFundGoal > 0
    /\ currentBalance > finalEmergencyFundGoal
    /\ transactions # << >>

\* C11: with goal = 0, or no goal set, the tracker reports percentComplete = 0
\* and amountNeeded = 0 for any balance and any contribution.
C11_ZeroGoal ==
    finalEmergencyFundGoal = 0 =>
        /\ progressPercentage = Rat(0, 1)
        /\ amountNeeded = 0

\* C12: for goal > 0 and currentBalance >= 0, percentComplete lies in [0, 100]
\* and equals 100 exactly when currentBalance >= goal.
C12_PercentOfPositiveGoal ==
    (finalEmergencyFundGoal > 0 /\ currentBalance >= 0) =>
        LET p == progressPercentage
        IN  /\ p.den > 0
            /\ 0 <= p.num
            /\ p.num <= 100 * p.den
            /\ p.num = 100 * p.den <=> currentBalance >= finalEmergencyFundGoal
            /\ currentBalance < finalEmergencyFundGoal =>
                  p.num * finalEmergencyFundGoal = currentBalance * 100 * p.den

\* C12 witness: an overridden contribution has taken the balance past a positive
\* goal, so the quotient exceeds 100 and the cap acts
C12_Witness ==
    /\ savingAmount # Null
    /\ finalEmergencyFundGoal > 0
    /\ currentBalance > finalEmergencyFundGoal

\* C13: no target computation divides by a denominator that is zero or
\* negative; percentComplete and monthsToGoal are finite numbers for every goal,
\* balance and contribution, and they are 0 where the guard skips the division.
C13_GuardedDivisions ==
    /\ progressGuard => finalEmergencyFundGoal > 0
    /\ monthsGuard => currentBalance > 0
    /\ progressPercentage.den > 0
    /\ progressPercentage.num \in Int
    /\ monthsToGoal \in Int
    /\ finalEmergencyFundGoal <= 0 => progressPercentage = Rat(0, 1)
    /\ currentBalance <= 0 => monthsToGoal = 0

\* C13 witness: a negative goal and a balance of 0 over a non-empty list, where
\* both guards skip their division
C13_Witness ==
    /\ transactions # << >>
    /\ emergencyFundGoal = Some(-1)
    /\ currentBalance = 0

\* C18: the status message is a total function of percentComplete: 'achieved'
\* for >= 100, 'almost there' for [75, 100), 'halfway' for [50, 75), 'good
\* start' for [25, 50) and 'start building' below 25, negative values included;
\* exactly one message applies to every value.
C18_StatusMessage ==
    LET p == progressPercentage
        m == statusMessage
        AtLeast(n) == p.num >= n * p.den
    IN  /\ p.den > 0
        /\ m = "Emergency fund goal achieved!" <=> AtLeast(100)
        /\ m = "Almost there! Keep going!" <=> (AtLeast(75) /\ ~AtLeast(100))
        /\ m = "Great progress! Halfway to your goal!"
              <=> (AtLeast(50) /\ ~AtLeast(75))
        /\ m = "Good start! Keep building your fund!"
              <=> (AtLeast(25) /\ ~AtLeast(50))
        /\ m = "Start building your emergency fund today!" <=> ~AtLeast(25)

\* C18 witness: the balance is exactly three quarters of the goal, the lower
\* end of 'almost there'
C18_Witness ==
    /\ finalEmergencyFundGoal > 0
    /\ 4 * currentBalance = 3 * finalEmergencyFundGoal
    /\ statusMessage = "Almost there! Keep going!"

\* the names a ledger row or a chart label can carry
LookupNames == {"Food", "Gifts", "Salary", "Other", ""}

\* C17: the colour lookup returns the colour of the first category whose name
\* equals the transaction's category name, and the fallback colour '#6b7280'
\* when no category matches, also for an empty category list.
C17_ColourOfFirstMatch ==
    \A name \in LookupNames :
        LET matches == {i \in DOMAIN categories : categories[i].name = name}
            expected ==
                IF matches = {} THEN "#6b7280"
                ELSE categories[CHOOSE i \in matches :
                                    \A j \in matches : i <= j].color
        IN  /\ getCategoryColor(name) = expected
            /\ chartColor(name) = expected

\* C17 witness: two categories share a name with different colours, and the
\* lookup of that name gives the earlier one's colour
C17_Witness ==
    \E i, j \in DOMAIN categories :
        /\ i < j
        /\ categories[i].name = categories[j].name
        /\ categories[i].color # categories[j].color
        /\ getCategoryColor(categories[j].name) = categories[i].color

\* C20: in every reachable store state no two categories share a name,
\* whatever their types.
C20_UniqueCategoryNames ==
    \A i, j \in DOMAIN categories :
        categories[i].name = categories[j].name => i = j

\* C19: a transaction's id never changes: a step that keeps the list's length
\* (an updateTransaction) leaves every transaction's id as it was and changes
\* only transactions of the one id it was given.
C19_IdNeverChanges ==
    [][Len(transactions') = Len(transactions) =>
          /\ \A i \in DOMAIN transactions :
                transactions'[i].id = transactions[i].id
          /\ \A i, j \in DOMAIN transactions :
                (transactions'[i] # transactions[i]
                    /\ transactions'[j] # transactions[j])
                  => transactions[i].id = transactions[j].id]_vars

\* the overview the claims look at: January 2025
JanuaryOverview == getMonthlyOverview(2025, 1)

\* C14: the top-categories summary is derived from the expense-only breakdown:
\* each returned amount is the accumulated absolute expense amount of its
\* category, and a category that only carries income never appears.
C14_TopCategoriesExpenseOnly ==
    LET overview == JanuaryOverview
        rows == overview.transactions
        top == overview.summary.topCategories
    IN  \A k \in DOMAIN top :
            LET I == {i \in ExpenseAt(rows) : rows[i].category = top[k].category}
            IN  /\ I # {}
                /\ top[k].amount = SumAt(I, rows, TRUE)

\* C15: getTopCategories returns at most 5 entries, one per distinct category,
\* in order of non-increasing amount, and every category it omits has an
\* amount no larger than the smallest one returned.
C15_TopFive ==
    LET overview == JanuaryOverview
        rows == overview.transactions
        top == overview.summary.topCategories
        cats == {rows[i].category : i \in DOMAIN rows}
        At(c) == {i \in DOMAIN rows : rows[i].category = c}
        total == [c \in cats |-> SumAt(At(c), rows, TRUE)]
        returned == {top[k].category : k \in DOMAIN top}
    IN  /\ Len(top) <= 5
        /\ Len(top) = Min(5, Cardinality(cats))
        /\ \A k \in DOMAIN top :
              /\ top[k].category \in cats
              /\ top[k].amount = total[top[k].category]
              /\ top[k].count = Cardinality(At(top[k].category))
        /\ \A j, k \in DOMAIN top :
              j < k => /\ top[j].category # top[k].category
                       /\ top[j].amount >= top[k].amount
        /\ \A c \in cats \ returned :
              \A k \in DOMAIN top : total[c] <= top[k].amount

\* C15 witness: the month holds six categories of unequal amounts, so one is
\* cut off and the order of the kept ones matters
C15_Witness ==
    LET overview == JanuaryOverview
        rows == overview.transactions
        top == overview.summary.topCategories
    IN  /\ Cardinality({rows[i].category : i \in DOMAIN rows}) > 5
        /\ Len(top) = 5
        /\ top[1].amount > top[5].amount
        /\ rows[1].amount < rows[Len(rows)].amount

OverviewYears == {2024, 2025}

\* C16: for every year and every month 1..12 the window of getMonthlyOverview
\* starts on day 1 and ends on the last calendar day of that month, whatever
\* the UTC offset of the clock.
C16_OverviewWindow ==
    \A year \in OverviewYears, month \in 1..12 :
        /\ overviewStartDate(year, month) = Date(year, month, 1)
        /\ overviewEndDate(year, month)
              = PreviousDay(IF month = 12 THEN Date(year + 1, 1, 1)
                            ELSE Date(year, month + 1, 1))

\* C21: deleteCategory(id) removes only the category with that id: the
\* transactions list is left unchanged, the transactions that name the deleted
\* category stay in the aggregates and the ledger, and their colour lookup
\* yields the fallback colour.
C21_DeleteCategoryFrame ==
    [][Len(categories') < Len(categories) =>
          LET deleted == {i \in DOMAIN categories :
                             categories[i].id \notin IdsOf(categories')}
          IN  /\ Cardinality(deleted) = 1
              /\ categories' =
                    SelectSeq(categories,
                              LAMBDA c : c.id \in IdsOf(categories'))
              /\ transactions' = transactions
              /\ totalExpenses' = totalExpenses
              /\ totalIncome' = totalIncome
              /\ currentMonthTransactions' = currentMonthTransactions
              /\ sortField' = sortField /\ sortDirection' = sortDirection
              /\ \A i \in deleted, k \in DOMAIN transactions :
                    transactions[k].category = categories[i].name
                        => getCategoryColor(transactions[k].category)'
                             = "#6b7280"]_vars

\* C22: computing the aggregates, the target progress and the ledger
\* projection, re-sorting by any field and direction included, leaves the
\* store's transactions and categories unchanged in content and order; only
\* the add, update and delete operations change them.
C22_ViewsLeaveStore ==
    [][/\ (sortField' # sortField \/ sortDirection' # sortDirection) =>
             /\ transactions' = transactions
             /\ categories' = categories
       /\ transactions' # transactions =>
             /\ sortField' = sortField /\ sortDirection' = sortDirection
             /\ Len(transactions') = Len(transactions) + 1
             /\ SubSeq(transactions', 1, Len(transactions)) = transactions]_vars

\* C22 witness: the ledger is sorted by ascending amount and shows the month's
\* transactions in another order than the store holds them
C22_Witness ==
    /\ sortField = "amount"
    /\ sortDirection = "asc"
    /\ Len(currentMonthTransactions) >= 2
    /\ sortedTransactions # currentMonthTransactions

\* C23: only a null savingAmount means auto-calculate: the monthly savings of
\* the Dashboard and of the Target screen is savingAmount whenever that is
\* not null, 0 included, and netBalance only when it is null; the Target
\* screen adds the base balance of all transactions only when it is null.
C23_NullMeansAuto ==
    LET auto == savingAmount = Null
    IN  /\ displaySavingAmount
              = (IF auto THEN netBalance ELSE ValueOf(savingAmount))
        /\ dashboardMonthlySavings
              = (IF auto THEN netBalance ELSE ValueOf(savingAmount))
        /\ baseBalance = (IF auto THEN SumAmount(transactions) ELSE 0)

\* C24: a transaction is in the local list only if its insert into
\* persistence succeeded: when createTransactionWithDebug fails the list is
\* left unchanged, and when it succeeds exactly one transaction is appended,
\* carrying the id persistence returned.
C24_AppendOnlyWhenInserted ==
    [][LET n == Len(transactions)
           grown == Len(transactions') > n
       IN  /\ grown <=> nextId' # nextId
           /\ grown =>
                 /\ Len(transactions') = n + 1
                 /\ SubSeq(transactions', 1, n) = transactions
                 /\ transactions'[n + 1].id = nextId
                 /\ nextId' = nextId + 1
                 /\ ValidTransactionData(transactions'[n + 1])]_vars

\* C24 witness: two inserts have succeeded and the list holds both rows under
\* the ids persistence gave them
C24_Witness ==
    /\ Len(transactions) = 2
    /\ transactions[1].id = 1
    /\ transactions[2].id = 2
    /\ nextId = 3

RECURSIVE SumValues(_, _)
SumValues(K, f) ==
    IF K = {} THEN 0
    ELSE LET k == CHOOSE x \in K : TRUE
         IN  f[k] + SumValues(K \ {k}, f)

SortFields == {"date", "amount", "category"}

SortDirections == {"asc", "desc"}

\* C26: for transactions entered through TransactionModal, the runningBalance
\* of the last row of the Monthly Ledger equals the Dashboard's netBalance of
\* the same month, under every sort field and direction.
C26_LastRowIsNetBalance ==
    LET cmt == currentMonthTransactions
        net == netBalance
        shown == transactionsWithBalance
    IN  cmt # << >> =>
            /\ shown[Len(shown)].runningBalance = net
            /\ \A field \in SortFields, direction \in SortDirections :
                  LET rows == WithBalance(SortBy(field, direction, cmt))
                  IN  /\ Len(rows) = Len(cmt)
                      /\ rows[Len(rows)].runningBalance = net

\* C26 witness: the month's ledger holds an income and a larger expense and is
\* sorted by category
C26_Witness ==
    LET shown == transactionsWithBalance
    IN  /\ sortField = "category"
        /\ Len(shown) >= 2
        /\ totalIncome > 0
        /\ netBalance < 0
        /\ shown[Len(shown)].runningBalance < 0

\* C28: after the user saves a value V >= 0 in the 'Current Savings Balance'
\* editor of the Target screen, the recomputed currentBalance equals V,
\* whatever the transactions and the previous savingAmount were.
C28_SavedBalanceIsShown ==
    [][\A value \in 0..MaxSaving :
          handleSavingAmountChange(value) => currentBalance' = value]_vars

\* C29: after any sequence of InlineEdit saves on the Dashboard and the Target
\* screen, each stored target parameter (savingAmount, totalSavings,
\* monthlyIncomeTarget, emergencyFundGoal) is null or >= 0.
C29_ParametersNonNegative ==
    /\ savingAmount = Null \/ ValueOf(savingAmount) >= 0
    /\ totalSavings >= 0
    /\ monthlyIncomeTarget = Null \/ ValueOf(monthlyIncomeTarget) >= 0
    /\ emergencyFundGoal = Null \/ ValueOf(emergencyFundGoal) >= 0

\* the number of entries of s that carry the id
CountId(s, id) == Cardinality({i \in DOMAIN s : s[i].id = id})

\* C27: in the store revision that has loadTransactions, for every
\* interleaving of a loadTransactions call and an addTransaction call whose
\* insert succeeds, once both calls have completed the local transactions
\* list contains the inserted transaction exactly once.
C27_InsertedExactlyOnce ==
    (calls.loadPc = "done" /\ calls.addPc = "done" /\ calls.addData # Null) =>
        CountId(transactions, ValueOf(calls.addData).id) = 1

\* the rows of the table transactions stored for a date
RowsOn(date) == SelectSeq(table, LAMBDA r : r.date = date)

\* C30: after any sequence of INSERT, UPDATE and DELETE statements on
\* transactions for one user and one date, the dashboard_metrics row kept by
\* the trigger for that date mirrors the table: transaction_count is the
\* number of transactions stored for the date, monthly_income the sum of
\* their income amounts, monthly_expenses the sum of their absolute expense
\* amounts.
C30_MetricsMirrorTable ==
    \A m \in dashboard_metrics :
        LET rows == RowsOn(m.metric_date)
        IN  /\ m.transaction_count = Len(rows)
            /\ m.monthly_income = IncomeTotal(rows)
            /\ m.monthly_expenses = ExpenseTotal(rows)

====
